---- MODULE Spec2Model ----
(***************************************************************************)
(* A model of vdom/core.py: the immutable VDOM element, its dict codec     *)
(* (to_dict / from_dict), the HTML serializer (_repr_html_), the component *)
(* factory (create_component), the hyperscript helper h and to_json.       *)
(*                                                                         *)
(* Python values are records tagged with their type in the field ty.       *)
(* A string is a sequence of one-character strings, so that escaping can   *)
(* be computed character by character.  A dict is the insertion-ordered    *)
(* sequence of its <<key, value>> pairs (keys are character sequences).    *)
(* A list is either a literal (field v) or a caller-owned mutable list     *)
(* that lives in the heap (field ref).  A call returns Return(value) or    *)
(* Raise(exception).                                                       *)
(***************************************************************************)
EXTENDS Integers, Sequences, FiniteSets, TLC

VARIABLES heap, node, call, ret, html

vars == <<heap, node, call, ret, html>>

(* ------------------------------------------------------------------ *)
(* Python values                                                        *)
(* ------------------------------------------------------------------ *)
None == [ty |-> "NoneType"]
Str(s) == [ty |-> "str", s |-> s]
PyInt(n) == [ty |-> "int", n |-> n]
Bool(b) == [ty |-> "bool", b |-> b]
List(xs) == [ty |-> "list", v |-> xs]
ListRef(id) == [ty |-> "list", ref |-> id]
Tuple(xs) == [ty |-> "tuple", v |-> xs]
Dict(items) == [ty |-> "dict", items |-> items]

Return(x) == [ok |-> TRUE, val |-> x]
Raise(e) == [ok |-> FALSE, err |-> e]
Error(cls, msg) == [cls |-> cls, msg |-> msg]

(* The elements of a list or a tuple; a caller-owned list is read from the heap. *)
Items(x) == IF x.ty = "list" /\ "ref" \in DOMAIN x THEN heap[x.ref] ELSE x.v

(* Python truthiness of the values that reach an `if x` in core.py. *)
Truthy(x) ==
    CASE x.ty = "NoneType" -> FALSE
      [] x.ty = "str" -> x.s # <<>>
      [] x.ty = "int" -> x.n # 0
      [] x.ty = "bool" -> x.b
      [] x.ty \in {"list", "tuple"} -> Items(x) # <<>>
      [] x.ty \in {"dict", "FrozenDict"} -> x.items # <<>>
      [] OTHER -> TRUE

(* isinstance(x, dict): FrozenDict is a dict subclass. *)
IsDict(x) == x.ty \in {"dict", "FrozenDict"}

(* k in d *)
Has(d, k) == \E i \in 1..Len(d.items) : d.items[i][1] = k

(* d[k], for a key that is present *)
Get(d, k) == d.items[CHOOSE i \in 1..Len(d.items) : d.items[i][1] = k][2]

(* d.get(k, default) *)
GetOr(d, k, default) == IF Has(d, k) THEN Get(d, k) ELSE default

(* d[k] = x on a copy of d: an existing key keeps its position *)
DictSet(d, k, x) ==
    IF Has(d, k)
    THEN [d EXCEPT !.items = [i \in 1..Len(d.items) |->
                 IF d.items[i][1] = k THEN <<k, x>> ELSE d.items[i]]]
    ELSE [d EXCEPT !.items = Append(d.items, <<k, x>>)]

(* d.pop(k) on a copy of d *)
DictPop(d, k) ==
    [d EXCEPT !.items = SelectSeq(d.items, LAMBDA p : p[1] # k)]

(* d.update(e) on a copy of d *)
RECURSIVE DictUpdate(_, _)
DictUpdate(d, pairs) ==
    IF pairs = <<>> THEN d
    ELSE DictUpdate(DictSet(d, Head(pairs)[1], Head(pairs)[2]), Tail(pairs))

(* The keys the code looks up. *)
K_tagName == <<"t", "a", "g", "N", "a", "m", "e">>
K_attributes == <<"a", "t", "t", "r", "i", "b", "u", "t", "e", "s">>
K_children == <<"c", "h", "i", "l", "d", "r", "e", "n">>
K_key == <<"k", "e", "y">>
K_attrs == <<"a", "t", "t", "r", "s">>
K_required == <<"r", "e", "q", "u", "i", "r", "e", "d">>
K_title == <<"t", "i", "t", "l", "e">>

(* ------------------------------------------------------------------ *)
(* html.escape(s, quote=True)                                           *)
(* ------------------------------------------------------------------ *)
RECURSIVE replace(_, _, _)
replace(s, old, new) ==
    IF s = <<>> THEN <<>>
    ELSE (IF Head(s) = old THEN new ELSE <<Head(s)>>) \o replace(Tail(s), old, new)

escape_noquote(s) ==
    replace(replace(replace(s, "&", <<"&", "a", "m", "p", ";">>),
                    "<", <<"&", "l", "t", ";">>),
            ">", <<"&", "g", "t", ";">>)

escape(s) ==
    replace(replace(replace(replace(replace(s,
        "&", <<"&", "a", "m", "p", ";">>),
        "<", <<"&", "l", "t", ";">>),
        ">", <<"&", "g", "t", ";">>),
        "\"", <<"&", "q", "u", "o", "t", ";">>),
        "'", <<"&", "#", "x", "2", "7", ";">>)

(* ------------------------------------------------------------------ *)
(* The schema validator (jsonschema.validate) and the canonical schema  *)
(* ------------------------------------------------------------------ *)

(* The canonical schema document, schemas/vdom_schema_v1.json: an object  *)
(* whose tagName is required.                                             *)
VDOM_SCHEMA ==
    Dict(<< <<K_title, Str(<<"v", "d", "o", "m">>)>>,
            <<K_required, List(<<Str(K_tagName)>>)>> >>)

_validate_err_template == "Your object didn't match the schema: {}. \n {}"

(* ValidationError(_validate_err_template.format(schema, e)) *)
ValidationError(schema, e) ==
    [cls |-> "ValidationError", template |-> _validate_err_template,
     schema |-> schema, detail |-> e]

(* The names a schema requires. *)
Required(schema) ==
    IF Has(schema, K_required)
    THEN {Items(Get(schema, K_required))[i].s : i \in 1..Len(Items(Get(schema, K_required)))}
    ELSE {}

(* validate(instance, schema, cls=Draft4Validator): "ok", or the detail   *)
(* of the first error.  The wire format: an object with tagName a string, *)
(* attributes a string-to-string mapping, children a sequence of strings  *)
(* and nested objects, key a string; the empty schema accepts every       *)
(* instance.                                                              *)
RECURSIVE validate(_, _)
validate(instance, schema) ==
    IF schema.items = <<>> THEN "ok"
    ELSE IF ~IsDict(instance) THEN "is not of type 'object'"
    ELSE IF \E k \in Required(schema) : ~Has(instance, k) THEN "is a required property"
    ELSE IF Has(instance, K_tagName) /\ Get(instance, K_tagName).ty # "str"
         THEN "is not of type 'string'"
    ELSE IF Has(instance, K_attributes) /\ ~IsDict(Get(instance, K_attributes))
         THEN "is not of type 'object'"
    ELSE IF Has(instance, K_attributes)
            /\ \E i \in 1..Len(Get(instance, K_attributes).items) :
                   Get(instance, K_attributes).items[i][2].ty # "str"
         THEN "is not of type 'string'"
    ELSE IF Has(instance, K_key) /\ Get(instance, K_key).ty # "str"
         THEN "is not of type 'string'"
    ELSE IF ~Has(instance, K_children) THEN "ok"
    ELSE IF Get(instance, K_children).ty # "list" THEN "is not of type 'array'"
    ELSE LET cs == Items(Get(instance, K_children))
             bad == {i \in 1..Len(cs) :
                       cs[i].ty # "str" /\ validate(cs[i], schema) # "ok"}
         IN IF bad = {} THEN "ok"
            ELSE LET i == CHOOSE j \in bad : \A m \in bad : j <= m
                 IN IF IsDict(cs[i]) THEN validate(cs[i], schema)
                    ELSE "is not valid under any of the given schemas"

(* ------------------------------------------------------------------ *)
(* class VDOM                                                           *)
(* ------------------------------------------------------------------ *)
__slots__ == {"tag_name", "attributes", "children", "key", "_frozen"}

(* FrozenDict(d): an immutable mapping with the items of d, in d's order. *)
FrozenDict(d) == [ty |-> "FrozenDict", items |-> d.items]

(* hasattr(self, attr): a slot has the attribute once it was assigned. *)
hasattr(self, attr) == attr \in DOMAIN self

(* object.__setattr__ on a slotted object *)
store(self, attr, value) ==
    [f \in DOMAIN self \cup {attr} |-> IF f = attr THEN value ELSE self[f]]

__setattr___unguarded(self, attr, value) ==
    IF attr \notin __slots__
    THEN Raise(Error("AttributeError", "'VDOM' object has no attribute"))
    ELSE Return(store(self, attr, value))

__setattr__(self, attr, value) ==
    IF hasattr(self, "_frozen") /\ Truthy(self._frozen)
    THEN Raise(Error("AttributeError", "Cannot change attribute of immutable object"))
    ELSE IF attr \notin __slots__
    THEN Raise(Error("AttributeError", "'VDOM' object has no attribute"))
    ELSE Return(store(self, attr, value))

(* tuple(x) *)
tuple(x) ==
    CASE x.ty \in {"list", "tuple"} -> Return(Tuple(Items(x)))
      [] x.ty = "str" -> Return(Tuple([i \in 1..Len(x.s) |-> Str(<<x.s[i]>>)]))
      [] IsDict(x) -> Return(Tuple([i \in 1..Len(x.items) |-> Str(x.items[i][1])]))
      [] OTHER -> Raise(Error("TypeError", "object is not iterable"))

(* tuple(children) if children else tuple() *)
children_aliased(children) ==
    IF Truthy(children)
    THEN (IF children.ty \in {"list", "tuple"} THEN Return(children) ELSE tuple(children))
    ELSE Return(Tuple(<<>>))

children_tuple(children) ==
    IF Truthy(children) THEN tuple(children) ELSE Return(Tuple(<<>>))

(* all([isinstance(c, (VDOM, str, unicode)) for c in self.children]) *)
children_valid_first(children) ==
    Len(Items(children)) = 0 \/ Items(children)[1].ty \in {"VDOM", "str"}

children_valid(children) ==
    \A i \in 1..Len(Items(children)) : Items(children)[i].ty \in {"VDOM", "str"}

RECURSIVE to_dict(_)
to_dict(self) ==
    LET base == << <<K_tagName, self.tag_name>>, <<K_attributes, self.attributes>> >>
        keyed == IF Truthy(self.key) THEN Append(base, <<K_key, self.key>>) ELSE base
        cs == Items(self.children)
    IN Dict(Append(keyed,
                   <<K_children,
                     List([i \in 1..Len(cs) |->
                            IF cs[i].ty = "VDOM" THEN to_dict(cs[i]) ELSE cs[i]])>>))

(* VDOM.validate(self, schema) *)
VDOM_validate(self, schema) ==
    LET e == validate(to_dict(self), schema)
    IN IF e = "ok" THEN Return(None) ELSE Raise(ValidationError(VDOM_SCHEMA, e))

RECURSIVE VDOM_init(_, _, _, _, _)
RECURSIVE from_dict(_)
RECURSIVE from_dict_cls(_)

(* VDOM.__init__; Return(self) stands for the constructed object. *)
VDOM_init(tag_name0, attributes0, children0, key0, schema) ==
    LET legacy == IsDict(tag_name0) \/ tag_name0.ty = "list"
        vdom_obj == IF legacy THEN from_dict(tag_name0) ELSE Return(None)
    IN IF ~vdom_obj.ok THEN vdom_obj
       ELSE
       LET tag_name == IF legacy THEN vdom_obj.val.tag_name ELSE tag_name0
           attributes == IF legacy THEN vdom_obj.val.attributes ELSE attributes0
           children == IF legacy THEN vdom_obj.val.children ELSE children0
           key == IF legacy THEN vdom_obj.val.key ELSE key0
           s1 == __setattr__([ty |-> "VDOM"], "tag_name", tag_name)
           s2 == __setattr__(s1.val, "attributes",
                             IF Truthy(attributes) THEN FrozenDict(attributes)
                             ELSE FrozenDict(Dict(<<>>)))
           tup == children_tuple(children)
           s3 == __setattr__(s2.val, "children", tup.val)
           s4 == __setattr__(s3.val, "key", key)
           s5 == __setattr__(s4.val, "_frozen", Bool(TRUE))
           checked == VDOM_validate(s5.val, schema)
       IN IF ~tup.ok THEN tup
          ELSE IF ~children_valid(s4.val.children)
          THEN Raise(Error("ValueError", "Children must be a list of VDOM objects or strings"))
          ELSE IF schema # None /\ ~checked.ok THEN checked
          ELSE s5

(* [VDOM.from_dict(c) if isinstance(c, dict) else c for c in cs] *)
RECURSIVE from_dict_children(_)
from_dict_children(cs) ==
    IF cs = <<>> THEN Return(<<>>)
    ELSE LET c == IF IsDict(Head(cs)) THEN from_dict(Head(cs)) ELSE Return(Head(cs))
             rest == from_dict_children(Tail(cs))
         IN IF ~c.ok THEN c
            ELSE IF ~rest.ok THEN rest
            ELSE Return(<<c.val>> \o rest.val)

(* the cls(...) call of from_dict *)
from_dict_cls(value) ==
    IF ~IsDict(value) THEN Raise(Error("TypeError", "indices must be integers"))
    ELSE IF ~Has(value, K_tagName) THEN Raise(Error("KeyError", "tagName"))
    ELSE LET given == GetOr(value, K_children, List(<<>>))
             iter == tuple(given)
             cs == from_dict_children(iter.val.v)
         IN IF ~iter.ok THEN iter
            ELSE IF ~cs.ok THEN cs
            ELSE VDOM_init(Get(value, K_tagName),
                           GetOr(value, K_attributes, Dict(<<>>)),
                           List(cs.val),
                           GetOr(value, K_key, None),
                           None)

from_dict_unvalidated(value) == from_dict_cls(value)

from_dict(value) ==
    LET e == validate(value, VDOM_SCHEMA)
    IN IF e # "ok" THEN Raise(ValidationError(VDOM_SCHEMA, e))
       ELSE from_dict_cls(value)

(* ------------------------------------------------------------------ *)
(* VDOM._repr_html_ and VDOM.to_html                                    *)
(* ------------------------------------------------------------------ *)
RECURSIVE _repr_html_(_)
RECURSIVE write_attributes(_)
RECURSIVE write_children(_)

(* for k, v in self.attributes.items(): out.write(' {key}="{value}"') *)
write_attributes(items) ==
    IF items = <<>> THEN <<>>
    ELSE <<" ">> \o escape(Head(items)[1]) \o <<"=", "\"">>
         \o escape(Head(items)[2].s) \o <<"\"">>
         \o write_attributes(Tail(items))

(* for c in self.children: out.write(...) *)
write_children(cs) ==
    IF cs = <<>> THEN <<>>
    ELSE (IF Head(cs).ty = "str" THEN escape(Head(cs).s) ELSE _repr_html_(Head(cs)))
         \o write_children(Tail(cs))

_repr_html__selfclosing(self) ==
    IF Items(self.children) = <<>>
    THEN <<"<">> \o escape(self.tag_name.s) \o write_attributes(self.attributes.items)
         \o <<" ", "/", ">">>
    ELSE <<"<">> \o escape(self.tag_name.s) \o write_attributes(self.attributes.items)
         \o <<">">> \o write_children(Items(self.children))
         \o <<"<", "/">> \o escape(self.tag_name.s) \o <<">">>

_repr_html_(self) ==
    <<"<">> \o escape(self.tag_name.s)
    \o write_attributes(self.attributes.items)
    \o <<">">>
    \o write_children(Items(self.children))
    \o <<"<", "/">> \o escape(self.tag_name.s) \o <<">">>

to_html(self) == _repr_html_(self)

(* ------------------------------------------------------------------ *)
(* create_component, h, to_json                                         *)
(* ------------------------------------------------------------------ *)

(* The _component closure of create_component(tag_name, allow_children): *)
(* children0 is the tuple of the positional arguments, kwargs0 the dict   *)
(* of the keyword arguments.                                              *)
_component(tag_name, allow_children, children0, kwargs0) ==
    LET children == IF Has(kwargs0, K_children) THEN Get(kwargs0, K_children)
                    ELSE IF Len(children0.v) = 1 /\ children0.v[1].ty = "list"
                         THEN tuple(children0.v[1]).val
                         ELSE children0
        kwargs == IF Has(kwargs0, K_children) THEN DictPop(kwargs0, K_children)
                  ELSE kwargs0
        attributes == IF Has(kwargs, K_attributes) THEN Get(kwargs, K_attributes)
                      ELSE Dict(kwargs.items)
    IN IF ~allow_children /\ Truthy(children)
       THEN Raise(Error("ValueError", "<{tag_name} /> cannot have children"))
       ELSE VDOM_init(tag_name, attributes, children, None, None)

(* h: children is the tuple of the positional arguments after tagName. *)
h(tagName, children, kwargs0) ==
    LET kwargs == IF Has(kwargs0, K_attrs) THEN DictPop(kwargs0, K_attrs) ELSE kwargs0
        attrs == DictUpdate(Dict(GetOr(kwargs0, K_attrs, Dict(<<>>)).items), kwargs.items)
    IN _component(tagName, TRUE, Tuple(<<children>>), attrs)

RECURSIVE to_json(_, _)

(* list(map(to_json, el)) *)
RECURSIVE to_json_map(_)
to_json_map(els) ==
    IF els = <<>> THEN Return(<<>>)
    ELSE LET x == to_json(Head(els), None)
             rest == to_json_map(Tail(els))
         IN IF ~x.ok THEN x
            ELSE IF ~rest.ok THEN rest
            ELSE Return(<<x.val>> \o rest.val)

to_json(el, schema) ==
    LET mapped == to_json_map(Items(el))
        json_el ==
            CASE el.ty = "str" -> Return(el)
              [] el.ty = "list" ->
                   IF mapped.ok THEN Return(List(mapped.val)) ELSE mapped
              [] el.ty = "dict" ->
                   IF ~Has(el, K_tagName) THEN Raise(Error("AssertionError", ""))
                   ELSE LET a == IF Has(el, K_attributes) THEN el
                                 ELSE DictSet(el, K_attributes, Dict(<<>>))
                        IN Return(IF Has(a, K_children) THEN a
                                  ELSE DictSet(a, K_children, List(<<>>)))
              [] el.ty = "VDOM" -> Return(to_dict(el))
              [] OTHER -> Return(el)
    IN IF ~json_el.ok THEN json_el
       ELSE IF Truthy(schema) /\ validate(json_el.val, schema) # "ok"
       THEN Raise(ValidationError(schema, validate(json_el.val, schema)))
       ELSE json_el

(* ------------------------------------------------------------------ *)
(* Inputs                                                               *)
(* ------------------------------------------------------------------ *)
MaxChildren == 2

SeqsUpTo(S, n) == UNION {[1..k -> S] : k \in 0..n}

S_div == <<"d", "i", "v">>
S_p == <<"p">>
S_a == <<"a">>
S_hey == <<"h", "e", "y">>
S_href == <<"h", "r", "e", "f">>
S_x == <<"x">>
S_k == <<"k">>

Href == Dict(<< <<S_href, Str(S_x)>> >>)

(* p('hey'), and a keyed link with an attribute *)
P_hey == VDOM_init(Str(S_p), None, Tuple(<<Str(S_hey)>>), None, None).val
A_keyed == VDOM_init(Str(S_a), Href, None, Str(S_k), None).val

(* A schema of the caller's that also requires a key. *)
KEYED_SCHEMA ==
    Dict(<< <<K_title, Str(<<"k", "e", "y", "e", "d">>)>>,
            <<K_required, List(<<Str(K_tagName), Str(K_key)>>)>> >>)

SchemaPool == {None, Dict(<<>>), VDOM_SCHEMA, KEYED_SCHEMA}
KeyPool == {None, Str(<<>>), Str(S_k)}
AttributesPool == {None, Dict(<<>>), Href}

(* What a caller may put among the children: strings, elements, and      *)
(* values that are neither.                                              *)
GoodChildPool == {Str(S_hey), P_hey, A_keyed}
ChildPool == GoodChildPool \cup {PyInt(5), Tuple(<<Str(S_hey)>>)}
ChildSeqs == SeqsUpTo(ChildPool, MaxChildren)

(* Wire-format objects: every field optional, so that objects without    *)
(* tagName are among them.                                               *)
Wire(tag, attributes, children, key) ==
    Dict((IF tag = None THEN <<>> ELSE << <<K_tagName, tag>> >>)
         \o (IF attributes = None THEN <<>> ELSE << <<K_attributes, attributes>> >>)
         \o (IF children = None THEN <<>> ELSE << <<K_children, children>> >>)
         \o (IF key = None THEN <<>> ELSE << <<K_key, key>> >>))

WireLeaves ==
    {Wire(t, None, c, None) : t \in {None, Str(S_p)}, c \in {None, List(<<Str(S_hey)>>)}}
WireMid ==
    {Wire(Str(S_a), None, List(<<c>>), None) : c \in WireLeaves}
WireChildSeqs == SeqsUpTo({Str(S_hey)} \cup WireLeaves \cup WireMid, MaxChildren)
WirePool ==
    {Wire(t, a, c, k) :
        t \in {None, Str(S_div)}, a \in {None, Href},
        c \in {None} \cup {List(cs) : cs \in WireChildSeqs}, k \in KeyPool}
    \cup {Wire(PyInt(5), None, None, None), Wire(Str(S_div), None, Str(S_hey), None),
          Wire(Str(S_div), None, List(<<PyInt(5)>>), None),
          Wire(Str(S_div), None, None, PyInt(5))}

(* The argument lists of the constructor calls. *)
ConstructArgs ==
    {<<Str(S_div), a, c, k, None>> :
        a \in AttributesPool, k \in KeyPool,
        c \in {None, Str(S_hey), PyInt(5), PyInt(0)}
              \cup {List(cs) : cs \in ChildSeqs} \cup {Tuple(cs) : cs \in ChildSeqs}}
    \cup {<<Str(S_div), None, c, k, s>> :
        k \in KeyPool, s \in SchemaPool,
        c \in {None, List(<<P_hey>>), List(<<A_keyed>>), List(<<PyInt(5)>>)}}
    \cup {<<w, None, c, None, s>> :
        w \in {Wire(t, None, wc, k) : t \in {None, Str(S_div)}, k \in KeyPool,
                   wc \in {None, List(<<Str(S_hey)>>), List(<<Wire(None, None, None, None)>>)}}
              \cup {List(<<>>)},
        c \in {None, List(<<PyInt(5)>>)}, s \in {None, KEYED_SCHEMA}}

KwargsPool ==
    {Dict(<<>>), Dict(<< <<S_href, Str(S_x)>> >>),
     Dict(<< <<K_attributes, Href>> >>)}
    \cup {Dict(<< <<K_children, c>> >>) :
            c \in {List(<<>>), List(<<Str(S_hey)>>), List(<<P_hey, Str(S_hey)>>),
                   Tuple(<<P_hey>>), List(<<Str(S_hey), PyInt(5)>>)}}
    \cup {Dict(<< <<K_children, List(<<P_hey>>)>>, <<S_href, Str(S_x)>> >>)}

PositionalPool ==
    {Tuple(cs) : cs \in ChildSeqs}
    \cup {Tuple(<<List(cs)>>) : cs \in ChildSeqs}
    \cup {Tuple(<<Tuple(cs)>>) : cs \in ChildSeqs}

HArgsPool ==
    {Tuple(cs) : cs \in ChildSeqs} \cup {Tuple(<<List(cs)>>) : cs \in ChildSeqs}

HKwargsPool ==
    {Dict(<<>>), Dict(<< <<S_href, Str(S_x)>> >>),
     Dict(<< <<K_attrs, Href>>, <<S_k, Str(S_x)>> >>)}

ToJsonPool ==
    {Str(S_hey), PyInt(5), P_hey, A_keyed,
     VDOM_init(Str(S_div), None, Tuple(<<P_hey>>), Str(S_k), None).val,
     List(<<Str(S_hey), P_hey>>), List(<<Wire(None, None, None, None)>>)}
    \cup {Wire(t, None, None, k) : t \in {None, Str(S_div)}, k \in KeyPool}

AttrValuePool == {Str(S_x), Bool(FALSE)}

(* ------------------------------------------------------------------ *)
(* The calls of a session                                               *)
(* ------------------------------------------------------------------ *)
Init ==
    /\ heap = <<>>
    /\ node = None
    /\ call = [op |-> "none"]
    /\ ret = Return(None)
    /\ html = <<>>

(* A session makes one call that may build an element, then works on    *)
(* the element it got.                                                   *)
Fresh == call.op = "none"

(* The caller keeps what the call returned; nothing when it raised. *)
Kept(r) == IF r.ok /\ r.val.ty = "VDOM" THEN r.val ELSE None

(* node = VDOM(tag_name, attributes, children, key, schema) *)
Construct ==
    \E a \in ConstructArgs :
        /\ Fresh
        /\ call' = [op |-> "VDOM", tag_name |-> a[1], attributes |-> a[2],
                    children |-> a[3], key |-> a[4], schema |-> a[5]]
        /\ ret' = VDOM_init(a[1], a[2], a[3], a[4], a[5])
        /\ node' = Kept(ret')
        /\ UNCHANGED <<heap, html>>

(* node = VDOM.from_dict(value) *)
FromDict ==
    \E value \in WirePool :
        /\ Fresh
        /\ call' = [op |-> "from_dict", value |-> value]
        /\ ret' = from_dict(value)
        /\ node' = Kept(ret')
        /\ UNCHANGED <<heap, html>>

(* node = create_component('div', allow_children) applied to args and kwargs *)
Component ==
    \E allow_children \in BOOLEAN, args \in PositionalPool, kwargs \in KwargsPool :
        /\ Fresh
        /\ call' = [op |-> "component", tag_name |-> Str(S_div),
                    allow_children |-> allow_children, args |-> args, kwargs |-> kwargs]
        /\ ret' = _component(Str(S_div), allow_children, args, kwargs)
        /\ node' = Kept(ret')
        /\ UNCHANGED <<heap, html>>

(* node = h('div', ...) applied to args and kwargs *)
CallH ==
    \E args \in HArgsPool, kwargs \in HKwargsPool :
        /\ Fresh
        /\ call' = [op |-> "h", tag_name |-> Str(S_div), args |-> args, kwargs |-> kwargs]
        /\ ret' = h(Str(S_div), args, kwargs)
        /\ node' = Kept(ret')
        /\ UNCHANGED <<heap, html>>

(* to_json(el, schema) *)
ToJson ==
    \E el \in ToJsonPool, schema \in SchemaPool :
        /\ Fresh
        /\ call' = [op |-> "to_json", el |-> el, schema |-> schema]
        /\ ret' = to_json(el, schema)
        /\ node' = None
        /\ UNCHANGED <<heap, html>>

(* node.attr = value *)
SetAttr ==
    /\ node # None
    /\ \E attr \in __slots__, value \in AttrValuePool :
        /\ call' = [op |-> "setattr", self |-> node, attr |-> attr, value |-> value]
        /\ ret' = __setattr__(node, attr, value)
        /\ node' = IF ret'.ok THEN ret'.val ELSE node
    /\ UNCHANGED <<heap, html>>

(* VDOM.from_dict(node.to_dict()) *)
RoundTrip ==
    /\ node # None
    /\ call' = [op |-> "roundtrip", self |-> node]
    /\ ret' = from_dict(to_dict(node))
    /\ UNCHANGED <<heap, node, html>>

Next == Construct \/ FromDict \/ Component \/ CallH \/ ToJson \/ SetAttr \/ RoundTrip

Spec == Init /\ [][Next]_vars

(* ------------------------------------------------------------------ *)
(* Properties of a session                                              *)
(* ------------------------------------------------------------------ *)
ImmutableError == Error("AttributeError", "Cannot change attribute of immutable object")

IsElement(x) == x.ty = "VDOM"

(* every member of a list or tuple is a string or an element *)
AllGood(x) ==
    /\ x.ty \in {"list", "tuple"}
    /\ \A i \in 1..Len(Items(x)) : Items(x)[i].ty \in {"str", "VDOM"}

(* some member of a list or tuple is neither a string nor an element *)
HasBadChild(x) ==
    /\ x.ty \in {"list", "tuple"}
    /\ \E i \in 1..Len(Items(x)) : Items(x)[i].ty \notin {"str", "VDOM"}

(* The children a call hands to the constructor: directly, by the         *)
(* factory's children keyword, by one flattened list, or positionally.    *)
GivenChildren ==
    IF call.op = "VDOM" THEN call.children
    ELSE IF Has(call.kwargs, K_children) THEN Get(call.kwargs, K_children)
    ELSE IF Len(call.args.v) = 1 /\ call.args.v[1].ty = "list" THEN call.args.v[1]
    ELSE call.args

(* C1: a node returned by the constructor, from_dict or a factory is      *)
(* frozen, and every later assignment to one of its attributes            *)
(* (tag_name, attributes, children, key, _frozen) raises the              *)
(* immutable-mutation error and leaves every attribute as it was.         *)
C1_Immutable ==
    /\ [](IsElement(node) => node._frozen = Bool(TRUE))
    /\ [][call'.op = "setattr" =>
            /\ ret' = Raise(ImmutableError)
            /\ node' = node
            /\ call'.self = node]_vars

C1_Witness ==
    /\ call.op = "setattr"
    /\ call.attr = "_frozen"
    /\ call.value = Bool(FALSE)
    /\ IsElement(node)
    /\ Len(Items(node.children)) = 2
    /\ ret = Raise(ImmutableError)

(* C2: from_dict(t.to_dict()) succeeds and gives a tree with the tag,     *)
(* attributes, children and key of t, for every key: absent, or any       *)
(* string, the empty string included.                                     *)
C2_RoundTrip ==
    call.op = "roundtrip" =>
        /\ ret.ok
        /\ ret.val.tag_name = node.tag_name
        /\ ret.val.attributes = node.attributes
        /\ ret.val.children = node.children
        /\ ret.val.key = node.key

(* C5 as stated: children holding a value that is neither a string nor    *)
(* an element make the construction fail with a TypeError-class error,    *)
(* and no node is returned.                                               *)
C5_TypeError ==
    (/\ call.op \in {"VDOM", "component"}
     /\ call.tag_name.ty = "str"
     /\ HasBadChild(GivenChildren))
    => (~ret.ok /\ ret.err.cls = "TypeError" /\ node = None)

(* C5 amended: such a construction fails with a ValueError and no node    *)
(* is returned; the error is the constructor's child-type error, except   *)
(* that a factory made with allow_children=False raises its own           *)
(* cannot-have-children ValueError first.                                 *)
C5_ValueError ==
    (/\ call.op \in {"VDOM", "component"}
     /\ call.tag_name.ty = "str"
     /\ HasBadChild(GivenChildren))
    => /\ ~ret.ok
       /\ ret.err.cls = "ValueError"
       /\ node = None
       /\ (call.op = "VDOM" \/ call.allow_children) =>
              ret.err.msg = "Children must be a list of VDOM objects or strings"
       /\ (call.op = "component" /\ ~call.allow_children) =>
              ret.err.msg = "<{tag_name} /> cannot have children"

C5_Witness ==
    /\ call.op = "component"
    /\ call.allow_children
    /\ ~Has(call.kwargs, K_children)
    /\ Len(call.args.v) = 2
    /\ call.args.v[1].ty = "str"
    /\ call.args.v[2].ty = "int"
    /\ ~ret.ok
    /\ node = None

(* a mapping without tagName, at the top or in a nested child mapping *)
RECURSIVE MissingTagName(_)
MissingTagName(value) ==
    /\ IsDict(value)
    /\ \/ ~Has(value, K_tagName)
       \/ /\ Has(value, K_children)
          /\ Get(value, K_children).ty = "list"
          /\ \E i \in 1..Len(Get(value, K_children).v) :
                 MissingTagName(Get(value, K_children).v[i])

(* C6: from_dict validates its argument against the canonical schema      *)
(* before it builds anything: a mapping that lacks tagName, at the top     *)
(* or in any nested child mapping, fails with the schema validation        *)
(* error, and no tree is returned.                                         *)
C6_ValidationGate ==
    (call.op = "from_dict" /\ MissingTagName(call.value))
    => /\ ~ret.ok
       /\ ret.err.cls = "ValidationError"
       /\ ret.err.schema = VDOM_SCHEMA
       /\ node = None

C6_Witness ==
    /\ call.op = "from_dict"
    /\ Has(call.value, K_tagName)
    /\ MissingTagName(call.value)
    /\ ~ret.ok
    /\ ret.err.cls = "ValidationError"

(* C7: without a children keyword, one positional argument that is a list *)
(* or a tuple gives the node the contents of that sequence as children;   *)
(* with a children keyword the node's children are the keyword's value.   *)
C7_FactoryChildren ==
    (call.op = "component" /\ call.allow_children) =>
        /\ (Has(call.kwargs, K_children) /\ AllGood(Get(call.kwargs, K_children)))
           => (ret.ok /\ Items(ret.val.children) = Items(Get(call.kwargs, K_children)))
        /\ (/\ ~Has(call.kwargs, K_children)
            /\ Len(call.args.v) = 1
            /\ AllGood(call.args.v[1]))
           => (ret.ok /\ Items(ret.val.children) = Items(call.args.v[1]))

Div_P_hey ==
    <<"<", "d", "i", "v", ">", "<", "p", ">", "h", "e", "y",
      "<", "/", "p", ">", "<", "/", "d", "i", "v", ">">>

(* C8: h(tagName, ...) returns an element with that tag whose children    *)
(* are the contents of a single list argument, or else the positional     *)
(* arguments, in order: the node the factory returns for the same         *)
(* children; h('div', [p('hey')]) renders as <div><p>hey</p></div>.       *)
C8_H ==
    (/\ call.op = "h"
     /\ AllGood(GivenChildren))
    => /\ ret.ok
       /\ ret.val.tag_name = call.tag_name
       /\ Items(ret.val.children) = Items(GivenChildren)
       /\ ret.val.children
            = _component(call.tag_name, TRUE, call.args, Dict(<<>>)).val.children
       /\ call.args = Tuple(<<List(<<P_hey>>)>>) => to_html(ret.val) = Div_P_hey

(* The schema a failed validation was made against. *)
SchemaUsed ==
    CASE call.op = "VDOM" ->
           IF (IsDict(call.tag_name) \/ call.tag_name.ty = "list")
              /\ validate(call.tag_name, VDOM_SCHEMA) # "ok"
           THEN VDOM_SCHEMA ELSE call.schema
      [] call.op = "to_json" -> call.schema
      [] OTHER -> VDOM_SCHEMA

(* C9: a schema validation error carries the schema the value was         *)
(* validated against: the caller's schema for VDOM(..., schema=s) and     *)
(* to_json(el, schema=s), the canonical schema for from_dict and the      *)
(* dict-as-tag-name constructor path.                                     *)
C9_ErrorSchema ==
    (~ret.ok /\ ret.err.cls = "ValidationError")
    => (ret.err.schema = SchemaUsed /\ ret.err.detail # "ok")

(* ------------------------------------------------------------------ *)
(* Rendering: to_html over every small tree                             *)
(* ------------------------------------------------------------------ *)
MaxSize == 3

S_she_said == <<"S", "h", "e", " ", "s", "a", "i", "d", " ", "\"", "h", "i", "\"">>
S_url == <<"h", "t", "t", "p", ":", "/", "/", "x", "?", "a", "=", "1", "&", "b", "=", "2">>

HtmlTags == {S_a, <<"p", "<">>}
HtmlTexts ==
    {<<>>, <<"a">>, <<"&">>, <<"<">>, <<">">>, <<"\"">>, <<"'">>,
     <<"&", "l", "t", ";">>, S_she_said}
HtmlAttrs ==
    {<<S_k, Str(<<"v">>)>>, <<S_k, Str(<<"<", ">", "'">>)>>, <<<<"<">>, Str(<<"&">>)>>,
     <<<<"q">>, Str(<<"\"">>)>>, <<S_href, Str(S_url)>>}

(* The size of a child: one for a string, and for an element one plus    *)
(* its attributes plus the sizes of its children.                         *)
RECURSIVE Size(_)
RECURSIVE SizeAll(_)
SizeAll(cs) == IF cs = <<>> THEN 0 ELSE Size(Head(cs)) + SizeAll(Tail(cs))
Size(x) ==
    IF x.ty = "str" THEN 1
    ELSE 1 + Len(x.attributes.items) + SizeAll(Items(x.children))

(* attribute lists of at most n pairs, with distinct keys *)
HtmlAttrSeqs(n) ==
    {a \in SeqsUpTo(HtmlAttrs, n) :
        \A i, j \in 1..Len(a) : i # j => a[i][1] # a[j][1]}

(* The elements of size at most n, built by the constructor, and the     *)
(* children sequences of total size at most m.                            *)
RECURSIVE HtmlTrees(_)
RECURSIVE HtmlChildSeqs(_)
HtmlTrees(n) ==
    IF n < 1 THEN {}
    ELSE {VDOM_init(Str(t), Dict(ac[1]), Tuple(ac[2]), None, None).val :
            t \in HtmlTags,
            ac \in UNION {{<<a, c>> : c \in HtmlChildSeqs(n - 1 - Len(a))} :
                            a \in HtmlAttrSeqs(n - 1)}}
HtmlChildSeqs(m) ==
    {<<>>} \cup
    (IF m < 1 THEN {}
     ELSE UNION {{<<c>> \o r : r \in HtmlChildSeqs(m - Size(c))} :
                    c \in {Str(t) : t \in HtmlTexts} \cup HtmlTrees(m)})

InitHtml ==
    /\ heap = <<>>
    /\ node \in HtmlTrees(MaxSize)
    /\ call = [op |-> "none"]
    /\ ret = Return(None)
    /\ html = <<>>

(* node.to_html(), called once and then once more *)
ToHtml ==
    /\ Len(html) < 2
    /\ html' = Append(html, to_html(node))
    /\ call' = [op |-> "to_html"]
    /\ ret' = Return(Str(to_html(node)))
    /\ UNCHANGED <<heap, node>>

NextHtml == ToHtml

SpecHtml == InitHtml /\ [][NextHtml]_vars

Count(out, ch) == Cardinality({i \in 1..Len(out) : out[i] = ch})

RECURSIVE Elements(_)
RECURSIVE Attributes(_)
RECURSIVE Specials(_)
RECURSIVE SumOver(_, _)
SumOver(F(_), xs) == IF xs = <<>> THEN 0 ELSE F(Head(xs)) + SumOver(F, Tail(xs))

(* the elements of a tree, its attributes, and the characters of its      *)
(* strings that escaping rewrites (attribute keys and values, text, and   *)
(* the tag, which is written twice)                                       *)
Elements(x) == IF x.ty = "str" THEN 0 ELSE 1 + SumOver(Elements, Items(x.children))
Attributes(x) ==
    IF x.ty = "str" THEN 0
    ELSE Len(x.attributes.items) + SumOver(Attributes, Items(x.children))
SpecialsIn(s) == Cardinality({i \in 1..Len(s) : s[i] \in {"&", "<", ">", "\"", "'"}})
AttrSpecials(p) == SpecialsIn(p[1]) + SpecialsIn(p[2].s)
Specials(x) ==
    IF x.ty = "str" THEN SpecialsIn(x.s)
    ELSE 2 * SpecialsIn(x.tag_name.s) + SumOver(AttrSpecials, x.attributes.items)
         + SumOver(Specials, Items(x.children))

Entities ==
    {<<"&", "a", "m", "p", ";">>, <<"&", "l", "t", ";">>, <<"&", "g", "t", ";">>,
     <<"&", "q", "u", "o", "t", ";">>, <<"&", "#", "x", "2", "7", ";">>}

EntityAt(out, i) ==
    \E e \in Entities :
        i + Len(e) - 1 <= Len(out) /\ SubSeq(out, i, i + Len(e) - 1) = e

(* C3: in the text to_html produces, the only raw <, > and " are the      *)
(* delimiters of the tags (two of each per element) and the quotes of     *)
(* the attributes (two per attribute); every & begins an entity, and      *)
(* there is one entity for each &, <, >, " (and ') that a string of the   *)
(* tree brings into the text, at every depth.                             *)
C3_Escaping ==
    \A n \in 1..Len(html) :
        /\ Count(html[n], "<") = 2 * Elements(node)
        /\ Count(html[n], ">") = 2 * Elements(node)
        /\ Count(html[n], "\"") = 2 * Attributes(node)
        /\ Count(html[n], "&") = Specials(node)
        /\ \A i \in 1..Len(html[n]) : html[n][i] = "&" => EntityAt(html[n], i)

C3_Witness ==
    /\ Len(html) = 1
    /\ Len(Items(node.children)) = 1
    /\ Items(node.children)[1].ty = "VDOM"
    /\ Items(Items(node.children)[1].children) = <<Str(S_she_said)>>

(* The reference serialization. *)
EscapedChar(c) ==
    CASE c = "&" -> <<"&", "a", "m", "p", ";">>
      [] c = "<" -> <<"&", "l", "t", ";">>
      [] c = ">" -> <<"&", "g", "t", ";">>
      [] c = "\"" -> <<"&", "q", "u", "o", "t", ";">>
      [] c = "'" -> <<"&", "#", "x", "2", "7", ";">>
      [] OTHER -> <<c>>

RECURSIVE Flat(_)
Flat(parts) == IF parts = <<>> THEN <<>> ELSE Head(parts) \o Flat(Tail(parts))

Escaped(s) == Flat([i \in 1..Len(s) |-> EscapedChar(s[i])])

RECURSIVE Reference(_)
Reference(x) ==
    LET attrs == x.attributes.items
        cs == Items(x.children)
    IN <<"<">> \o Escaped(x.tag_name.s)
       \o Flat([i \in 1..Len(attrs) |->
                  <<" ">> \o Escaped(attrs[i][1]) \o <<"=", "\"">>
                  \o Escaped(attrs[i][2].s) \o <<"\"">>])
       \o <<">">>
       \o Flat([i \in 1..Len(cs) |->
                  IF cs[i].ty = "str" THEN Escaped(cs[i].s) ELSE Reference(cs[i])])
       \o <<"<", "/">> \o Escaped(x.tag_name.s) \o <<">">>

A_href ==
    <<"<", "a", " ", "h", "r", "e", "f", "=", "\"">> \o
    <<"h", "t", "t", "p", ":", "/", "/", "x", "?", "a", "=", "1",
      "&", "a", "m", "p", ";", "b", "=", "2">> \o
    <<"\"", ">", "<", "/", "a", ">">>

(* C4: to_html equals the reference serialization: the escaped tag in     *)
(* angle brackets, each attribute in mapping order as key="value", each   *)
(* child in order as escaped text or as its own serialization, then the   *)
(* closing tag; a childless node is an open tag followed by a close tag;  *)
(* a second call gives the same text.                                     *)
C4_Reference ==
    /\ \A n \in 1..Len(html) : html[n] = Reference(node)
    /\ Len(html) = 2 => html[1] = html[2]
    /\ (Len(html) > 0 /\ Items(node.children) = <<>>) =>
           SubSeq(html[1], Len(html[1]) - Len(escape(node.tag_name.s)) - 3, Len(html[1]))
             = <<">", "<", "/">> \o escape(node.tag_name.s) \o <<">">>
    /\ (Len(html) > 0 /\ node = VDOM_init(Str(S_a), Dict(<< <<S_href, Str(S_url)>> >>),
                                          None, None, None).val)
           => html[1] = A_href

C4_Witness ==
    /\ Len(html) = 2
    /\ Items(node.children) = <<>>
    /\ Len(node.attributes.items) = 2
    /\ node.attributes.items[1][1] = S_href

(* ------------------------------------------------------------------ *)
(* Ownership: a list of the caller's, handed over and changed later     *)
(* ------------------------------------------------------------------ *)
MaxListLen == 2

OwnPool == {Str(S_hey), P_hey, PyInt(5)}

TheList == ListRef(1)

InitOwn ==
    /\ heap \in {<<xs>> : xs \in SeqsUpTo(OwnPool, MaxListLen)}
    /\ node = None
    /\ call = [op |-> "none"]
    /\ ret = Return(None)
    /\ html = <<>>

(* node = VDOM('div', children=the_list), div(children=the_list) or       *)
(* div(the_list); what the node shows right after the call is recorded.   *)
BuildFromList ==
    \E how \in {"VDOM", "keyword", "flattened"} :
        /\ Fresh
        /\ ret' = CASE how = "VDOM" -> VDOM_init(Str(S_div), None, TheList, None, None)
                    [] how = "keyword" ->
                         _component(Str(S_div), TRUE, Tuple(<<>>),
                                    Dict(<< <<K_children, TheList>> >>))
                    [] how = "flattened" ->
                         _component(Str(S_div), TRUE, Tuple(<<TheList>>), Dict(<<>>))
        /\ node' = Kept(ret')
        /\ call' = [op |-> how, list |-> heap[1],
                    dict |-> IF ret'.ok THEN to_dict(ret'.val) ELSE None]
        /\ html' = IF ret'.ok THEN <<to_html(ret'.val)>> ELSE <<>>
        /\ UNCHANGED heap

(* the_list.append(x) *)
ListAppend ==
    \E x \in OwnPool :
        /\ IsElement(node)
        /\ Len(heap[1]) < MaxListLen + 1
        /\ heap' = [heap EXCEPT ![1] = Append(@, x)]
        /\ UNCHANGED <<node, call, ret, html>>

(* del the_list[i] *)
ListRemove ==
    \E i \in 1..Len(heap[1]) :
        /\ IsElement(node)
        /\ heap' = [heap EXCEPT ![1] = SubSeq(@, 1, i - 1) \o SubSeq(@, i + 1, Len(@))]
        /\ UNCHANGED <<node, call, ret, html>>

(* the_list[i] = x *)
ListReplace ==
    \E i \in 1..Len(heap[1]), x \in OwnPool :
        /\ IsElement(node)
        /\ heap' = [heap EXCEPT ![1][i] = x]
        /\ UNCHANGED <<node, call, ret, html>>

NextOwn == BuildFromList \/ ListAppend \/ ListRemove \/ ListReplace

SpecOwn == InitOwn /\ [][NextOwn]_vars

(* C10: the constructor copies the children it is given: whatever is      *)
(* appended to, removed from or replaced in the caller's list after the   *)
(* node was built, the node's children are the list's contents at the     *)
(* time of the call, and to_dict and to_html give what they gave then.    *)
C10_Copied ==
    IsElement(node) =>
        /\ Items(node.children) = call.list
        /\ to_dict(node) = call.dict
        /\ html = <<to_html(node)>>

C10_Witness ==
    /\ IsElement(node)
    /\ call.op = "keyword"
    /\ Len(call.list) = 2
    /\ heap[1] = <<PyInt(5)>>

====
